---- MODULE Spec2Model ----
(***************************************************************************)
(* Streaming export engine: the job registry, the download handler, the   *)
(* four format writers' database/sink protocol and the connection pool.   *)
(*                                                                         *)
(* One "run" is one invocation of the download route handler.  A run      *)
(* advances at the handler's await points (pool.connect, client.query,    *)
(* writer.appendRow, ...); everything between two awaits is one action.   *)
(***************************************************************************)
EXTENDS Integers, Sequences, FiniteSets

\* ---------------------------------------------------------------- bounds
MaxJobs == 2          \* job-creation requests accepted in one behaviour
MaxRuns == 2          \* download requests issued in one behaviour
MaxRows == 3          \* rows of the records table
BatchRows == 2        \* stand-in for batchSize (10000) of the text writers
ParquetBatchRows == 1 \* stand-in for batchSize (1000) of the parquet writer
RowGroupRows == 3     \* stand-in for rowGroupSize (10000) of the ParquetWriter
FlushRows == 2        \* stand-in for the 1000-row flush of the CSV writer
BenchRows == 1        \* rows of the records table while the benchmark runs
BenchFaults == 1      \* runs of one benchmark in which a step raises an error

\* ------------------------------------------------------ program constants
PoolMax == 5          \* new Pool({ max: 5 })

JobIds == 1..MaxJobs
RunIds == 1..MaxRuns

\* The four runs of one benchmark operation, one per format.
BenchIds == (MaxRuns + 1)..(MaxRuns + 4)
BenchFormat(b) ==
  CASE b = MaxRuns + 1 -> "csv"
    [] b = MaxRuns + 2 -> "json"
    [] b = MaxRuns + 3 -> "xml"
    [] OTHER -> "parquet"
AllRuns == RunIds \cup BenchIds

Formats == {"csv", "json", "xml", "parquet"}
NoJob == [status |-> "absent"]

\* The error a failed ROLLBACK raises; every other error is named after the
\* step that raised it.
ErrRollback == "ROLLBACK"

VARIABLES
  exportJobs,   \* the in-memory registry: job id -> job record, or NoJob
  runs,         \* handler invocations started so far: run id -> run record
  checkedOut,   \* number of pool clients currently checked out
  bench,        \* the benchmark operation's Promise.all: idle, running, resolved, rejected
  reply,        \* the response to the latest POST /exports request
  enc           \* one writer's encoding work on given rows: inputs, position, text

vars == <<exportJobs, runs, checkedOut, bench, reply, enc>>

\* ------------------------------------------------------------ job creation
\* The body of a POST /exports request.  A column entry is one of
\*   "ok"            {source: 'a', target: 'b'}
\*   "ok2"           {source: 'c', target: 'd'}
\*   "emptySource"   {source: '', target: 'b'}
\*   "numberTarget"  {source: 'a', target: 5}
\*   "null"          null
\* and compression is "none" (the field is absent), "gzip", "zip" or ""
\* (the empty string).
MaxCols == 2
GoodKinds == {"ok", "ok2"}
\* The source and target names of a well-formed column entry.
Source(kind) == IF kind = "ok" THEN "a" ELSE "c"
Target(kind) == IF kind = "ok" THEN "b" ELSE "d"
ColKinds == GoodKinds \cup {"emptySource", "numberTarget", "null"}
ColumnLists == UNION {[1..n -> ColKinds] : n \in 0..MaxCols}
Compressions == {"none", "gzip", "zip", ""}

Requests ==
  [format : Formats \cup {"avro"},
   isArray : {TRUE},
   columns : ColumnLists,
   compression : Compressions]
  \cup
  [format : Formats \cup {"avro"},
   isArray : {FALSE},
   columns : {<<>>},
   compression : Compressions]

\* JavaScript truthiness of the compression field.
Truthy(c) == c \notin {"none", ""}

\* The first column entry the validation loop stops at, 0 if it passes all.
FirstBad(cols) ==
  LET bad == {i \in DOMAIN cols : cols[i] \notin GoodKinds}
  IN IF bad = {} THEN 0 ELSE CHOOSE i \in bad : \A k \in bad : i <= k

\* Variant of validateExportRequest without the parquet check.
validateAllowsParquetGzip(req) ==
  IF req.format \notin Formats THEN "InvalidFormat"
  ELSE IF ~req.isArray \/ Len(req.columns) = 0 THEN "InvalidColumns"
  ELSE IF FirstBad(req.columns) # 0
       THEN IF req.columns[FirstBad(req.columns)] = "null"
            THEN "TypeError" ELSE "InvalidColumns"
  ELSE IF Truthy(req.compression) /\ req.compression # "gzip" THEN "InvalidCompression"
  ELSE "ok"

\* validateExportRequest: the checks in the order of the code.  Reading
\* .source of a null entry throws a TypeError.
validateExportRequest(req) ==
  IF req.format \notin Formats THEN "InvalidFormat"
  ELSE IF ~req.isArray \/ Len(req.columns) = 0 THEN "InvalidColumns"
  ELSE IF FirstBad(req.columns) # 0
       THEN IF req.columns[FirstBad(req.columns)] = "null"
            THEN "TypeError" ELSE "InvalidColumns"
  ELSE IF Truthy(req.compression) /\ req.compression # "gzip" THEN "InvalidCompression"
  ELSE IF req.compression = "gzip" /\ req.format = "parquet" THEN "UnsupportedCompression"
  ELSE "ok"

\* uuidv4(): a fresh identifier; the k-th accepted job gets id k.
FreshId == Cardinality({j \in JobIds : exportJobs[j] # NoJob}) + 1

\* The stored job: the columns as sent, compression || null.
NewJob(req) ==
  [status |-> "pending", format |-> req.format, columns |-> req.columns,
   compression |-> IF Truthy(req.compression) THEN req.compression ELSE "none",
   startedAt |-> 0, completedAt |-> 0, error |-> "none"]

NoReply == [code |-> 0, body |-> "none", id |-> 0]

\* Variant of CreateJob: the identifier is not fresh.
CreateJobReusesId(req) ==
  /\ FreshId \in JobIds
  /\ validateExportRequest(req) = "ok"
  /\ exportJobs' = [exportJobs EXCEPT ![1] = NewJob(req)]
  /\ reply' = [code |-> 201, body |-> "pending", id |-> 1]
  /\ UNCHANGED <<runs, checkedOut, bench, enc>>

\* router.post('/') for a request the validation passes: the job is stored
\* and answered with 201, its id and its status.
CreateJob(req) ==
  /\ FreshId \in JobIds
  /\ validateExportRequest(req) = "ok"
  /\ exportJobs' = [exportJobs EXCEPT ![FreshId] = NewJob(req)]
  /\ reply' = [code |-> 201, body |-> "pending", id |-> FreshId]
  /\ UNCHANGED <<runs, checkedOut, bench, enc>>

\* Variant of RejectJob: the job is stored before the validation answers.
RejectJobStores(req) ==
  /\ validateExportRequest(req) # "ok"
  /\ reply' = [code |-> IF validateExportRequest(req) = "TypeError" THEN 500 ELSE 400,
               body |-> validateExportRequest(req), id |-> 0]
  /\ exportJobs' = [j \in JobIds |->
        IF j = FreshId THEN [status |-> "pending", format |-> req.format,
                             columns |-> <<>>,
                             compression |-> "none", startedAt |-> 0,
                             completedAt |-> 0, error |-> "none"]
        ELSE exportJobs[j]]
  /\ UNCHANGED <<runs, checkedOut, bench, enc>>

\* router.post('/') for a request the validation stops: 400 with the error,
\* or 500 from the global error handler when the validation threw.
RejectJob(req) ==
  /\ validateExportRequest(req) # "ok"
  /\ reply' = [code |-> IF validateExportRequest(req) = "TypeError" THEN 500 ELSE 400,
               body |-> validateExportRequest(req), id |-> 0]
  /\ UNCHANGED <<exportJobs, runs, checkedOut, bench, enc>>

\* The requests the lifecycle specification submits: one per format, and
\* CSV with gzip as well.
LifecycleRequests ==
  {[format |-> "csv", isArray |-> TRUE, columns |-> <<"ok">>, compression |-> "gzip"],
   [format |-> "csv", isArray |-> TRUE, columns |-> <<"ok">>, compression |-> "none"],
   [format |-> "json", isArray |-> TRUE, columns |-> <<"ok">>, compression |-> "none"],
   [format |-> "xml", isArray |-> TRUE, columns |-> <<"ok">>, compression |-> "none"],
   [format |-> "parquet", isArray |-> TRUE, columns |-> <<"ok">>, compression |-> "none"]}

\* ------------------------------------------------------------------- runs
IdleRun ==
  [pc |-> "idle",        \* the await the run is suspended at
   job |-> 0,            \* the job id of the request
   fmt |-> "none",       \* the job's format
   gz |-> FALSE,         \* the output goes through zlib.createGzip() piped to the response
   total |-> 0,          \* rows of the records table when the run queries it
   left |-> 0,           \* rows the query has not yet delivered
   fetches |-> 0,        \* FETCH statements answered so far
   closing |-> 0,        \* json/xml: writes of the closing token ']' or '</records>'
   schema |-> 0,         \* parquet: the row the schema was inferred from (0: no row)
   pend |-> <<>>,        \* parquet: rows of the fetched batch not yet appended
   group |-> <<>>,       \* parquet: rows appended to the writer's row group, not yet in the file
   lineBuf |-> <<>>,     \* csv: rows in lineBuffer
   out |-> <<>>,         \* rows written to the sink (parquet: to the scratch file), in order
   sent |-> FALSE,       \* res.headersSent: bytes have gone into the response
   held |-> FALSE,       \* the run holds a pool client
   acq |-> 0,            \* pool.connect() calls that returned a client
   rel |-> 0,            \* client.release() calls
   txn |-> "none",       \* the client's transaction: none, open, committed, rolledback
   rb |-> "no",          \* ROLLBACK issued by the catch block: no, ok, failed
   err |-> "none",       \* the first error raised in the run
   thrown |-> "none",    \* the error the writer's promise rejected with
   buf |-> <<>>,         \* chunks written to the sink and not yet accepted
   full |-> FALSE,       \* the sink's buffer is full: write() returns false
   open |-> TRUE,        \* the client's connection is open
   lost |-> "no",        \* the transaction state at the first write to a closed response
   ended |-> FALSE,      \* outputStream.end() was called
   file |-> FALSE,       \* the scratch (temporary) file exists on disk
   opening |-> FALSE,    \* benchmark: fs.createWriteStream has not opened its file yet
   listen |-> FALSE,     \* parquet download: the 'finish' listener waits on the response
   unl |-> FALSE,        \* an fs.unlink of the file is under way
   piped |-> FALSE,      \* parquet download: the scratch file is piped to the response
   writer |-> "none",    \* json: the streamToJSON the run has entered
   resp |-> "none"]      \* the handler's own answer: none, 404, 500 (JSON payload), end

\* The record of run r; a run that no request has started yet is idle.
Run(r) == IF r \in DOMAIN runs THEN runs[r] ELSE IdleRun

\* The registry of runs with run r set to record v.
Put(r, v) == [q \in DOMAIN runs \cup {r} |-> IF q = r THEN v ELSE runs[q]]

\* A run is in progress from the request to the handler's last assignment.
Active(r) == Run(r).pc \notin {"idle", "done"}

\* outputStream.write(chunk): the return value is ignored and no 'drain' is
\* awaited.  A sink that keeps up accepts the chunk at once; a full sink
\* queues it; a chunk written to a closed response is dropped, its error
\* going to the write callback that nobody passed.  A gzip stream whose
\* response closed is unpiped and queues whatever is written to it.  A chunk
\* is the sequence of the rows it holds, empty for a prologue or epilogue.
\* A write to the response itself sends the headers; a write to a gzip
\* stream reaches the response when the stream emits.
SinkWrite(run, chunk) ==
  IF ~run.open /\ ~run.gz
  THEN [run EXCEPT !.lost = IF @ = "no" THEN run.txn ELSE @]
  ELSE [run EXCEPT !.buf = IF run.full THEN Append(@, chunk) ELSE @,
                   !.out = @ \o chunk,
                   !.sent = IF run.gz THEN @ ELSE TRUE]

\* The rows a..b of the ordered query, as the sequence <<a, ..., b>>.
Rows(a, b) == [i \in 1..(b - a + 1) |-> a + i - 1]

\* client.query(...) issued and awaited: the request goes to the database
\* whatever the state of the response.
Issue(run, pc) == [run EXCEPT !.pc = pc]

\* A handler that has returned: its locals are gone; what stays is how it
\* ended, the pool client and scratch file it may still own, and the counts
\* of its pool calls.
Finished(run) ==
  [IdleRun EXCEPT !.pc = "done", !.job = run.job, !.fmt = run.fmt, !.gz = run.gz,
                  !.err = run.err, !.rb = run.rb, !.closing = run.closing,
                  !.thrown = run.thrown, !.open = run.open, !.held = run.held,
                  !.acq = run.acq, !.rel = run.rel, !.file = run.file,
                  !.opening = run.opening, !.listen = run.listen, !.unl = run.unl,
                  !.writer = run.writer,
                  !.resp = run.resp]

\* No encoding work under observation.
NoEnc == [pc |-> "off"]

Init ==
  /\ exportJobs = [j \in JobIds |-> NoJob]
  /\ runs = [r \in {} |-> IdleRun]
  /\ checkedOut = 0
  /\ bench = "idle"
  /\ reply = NoReply
  /\ enc = NoEnc

Job(r) == exportJobs[Run(r).job]

\* Variant of DownloadStartN: an unknown identifier is registered as a
\* failed job before the 404 answer.
DownloadStartRegisters(r, id, n) ==
  /\ Run(r).pc = "idle"
  /\ \A q \in RunIds : q < r => Run(q).pc # "idle"
  /\ IF exportJobs[id] = NoJob
     THEN /\ runs' = Put(r, [Run(r) EXCEPT !.pc = "done", !.resp = "404"])
          /\ exportJobs' = [exportJobs EXCEPT ![id] =
                 [status |-> "failed", format |-> "csv", columns |-> <<>>,
                  compression |-> "none",
                  startedAt |-> 0, completedAt |-> 0, error |-> "none"]]
     ELSE /\ exportJobs' = [exportJobs EXCEPT ![id] =
                 [@ EXCEPT !.status = "processing", !.startedAt = r]]
          /\ runs' = Put(r,
                 [Run(r) EXCEPT !.pc = "connect", !.job = id,
                           !.fmt = exportJobs[id].format,
                           !.gz = /\ exportJobs[id].compression = "gzip"
                                  /\ exportJobs[id].format # "parquet",
                           !.total = n, !.left = n])
  /\ UNCHANGED <<checkedOut, bench, reply, enc>>

\* ------------------------------------------------- the download handler
\* router.get('/:exportId/download'), up to its first await: the registry
\* lookup, the 404 answer, the status and startedAt assignments, the response
\* headers and the pool.connect() call of the format's helper.  Run slots are
\* taken in order (they are interchangeable).  n is the number of rows the
\* records table holds when the run queries it.
DownloadStartN(r, id, n) ==
  /\ Run(r).pc = "idle"
  /\ \A q \in RunIds : q < r => Run(q).pc # "idle"
  /\ IF exportJobs[id] = NoJob
     THEN /\ runs' = Put(r, [Run(r) EXCEPT !.pc = "done", !.resp = "404"])
          /\ UNCHANGED exportJobs
     ELSE /\ exportJobs' = [exportJobs EXCEPT ![id] =
                 [@ EXCEPT !.status = "processing", !.startedAt = r]]
          /\ runs' = Put(r,
                 [Run(r) EXCEPT !.pc = "connect", !.job = id,
                           !.fmt = exportJobs[id].format,
                           !.gz = /\ exportJobs[id].compression = "gzip"
                                  /\ exportJobs[id].format # "parquet",
                           !.total = n, !.left = n])
  /\ UNCHANGED <<checkedOut, bench, reply, enc>>

\* The download of a table of MaxRows rows.
DownloadStart(r, id) == DownloadStartN(r, id, MaxRows)

\* The source holds two definitions of streamToJSON for the one module the
\* router requires: one reads through a cursor in a transaction, the other
\* submits one query and takes its rows from events, as streamToCSV does.
\* Which of them a deployment loads is not fixed by the source.
JsonWriters == {"cursor", "events"}

\* What each writer does between receiving its client and its first await.
\*   csv:     header line written, the query submitted (rows are pushed)
\*   json:    '[' written, then BEGIN issued (cursor) or the query submitted
\*            (events)
\*   xml:     prologue and root tag written, BEGIN issued
\*   parquet: the one-row sample query issued
WriterStart(run, w) ==
  CASE run.fmt = "csv" -> Issue(SinkWrite(run, <<>>), "rows")
    [] run.fmt = "json" /\ w = "events" -> Issue(SinkWrite(run, <<>>), "rows")
    [] run.fmt \in {"json", "xml"} -> Issue(SinkWrite(run, <<>>), "BEGIN")
    [] OTHER -> Issue(run, "SAMPLE")

\* await pool.connect() returns a client: at most PoolMax are checked out.
\* A JSON run enters the streamToJSON the deployment has loaded, the same one
\* for every run.
\* A benchmark's text run then calls fs.createWriteStream for its temporary
\* file, which is opened (created) on a later turn of the event loop.
PoolConnect(r) ==
  /\ Run(r).pc = "connect"
  /\ checkedOut < PoolMax
  /\ checkedOut' = checkedOut + 1
  /\ \E w \in JsonWriters :
       /\ \A q \in DOMAIN runs : runs[q].writer \in {"none", w}
       /\ runs' = Put(r,
            WriterStart([Run(r) EXCEPT !.held = TRUE, !.acq = @ + 1,
                                  !.opening = r \in BenchIds /\ Run(r).fmt # "parquet",
                                  !.writer = IF Run(r).fmt = "json" THEN w ELSE "none"],
                        w))
  /\ UNCHANGED <<exportJobs, bench, reply, enc>>

\* A rejected pool.connect().  In the text helpers and in benchmarkX the
\* call is outside the try/finally, so the error goes straight to the
\* caller's catch.  In handleParquetDownload it is inside the try whose
\* catch calls fs.unlink on the scratch file, without waiting, and rethrows.
ConnectRejected(r, e) ==
  [Run(r) EXCEPT !.pc = "settle", !.err = e, !.thrown = e,
                 !.unl = r \in RunIds /\ Run(r).fmt = "parquet"]

\* await pool.connect() rejects (database down).
PoolConnectFail(r) ==
  /\ Run(r).pc = "connect"
  /\ runs' = Put(r, ConnectRejected(r, "CONNECT"))
  /\ UNCHANGED <<exportJobs, checkedOut, bench, reply, enc>>

\* await pool.connect() while every client is checked out: the request
\* waits in the pool's queue, and connectionTimeoutMillis (2000) rejects it
\* when no client has been released by then.
PoolConnectTimeout(r) ==
  /\ Run(r).pc = "connect"
  /\ checkedOut = PoolMax
  /\ runs' = Put(r, ConnectRejected(r, "TIMEOUT"))
  /\ UNCHANGED <<exportJobs, checkedOut, bench, reply, enc>>

\* --------------------------------------------- cursor writers (json, xml,
\* parquet): BEGIN, DECLARE, FETCH*, CLOSE, COMMIT, each awaited.
NextQuery(pc) ==
  CASE pc = "BEGIN" -> "DECLARE"
    [] pc = "DECLARE" -> "FETCH"
    [] pc = "CLOSE" -> "COMMIT"

\* The catch block of the writer: ROLLBACK is issued, the error is kept.
\* What a failed run has written is not followed any further.
Catch(run, e) ==
  [run EXCEPT !.pc = "ROLLBACK", !.err = e, !.left = 0, !.fetches = 0, !.schema = 0,
              !.pend = <<>>, !.group = <<>>, !.out = <<>>]

\* BEGIN, DECLARE or CLOSE succeeds: the next statement is issued.
QueryOk(r) ==
  /\ Run(r).pc \in {"BEGIN", "DECLARE", "CLOSE"}
  /\ runs' = Put(r,
        Issue([Run(r) EXCEPT !.txn = IF Run(r).pc = "BEGIN" THEN "open" ELSE @],
              NextQuery(Run(r).pc)))
  /\ UNCHANGED <<exportJobs, checkedOut, bench, reply, enc>>

\* Any statement inside the try block fails: the catch block runs.
QueryFail(r) ==
  /\ Run(r).pc \in {"BEGIN", "DECLARE", "FETCH", "CLOSE", "COMMIT"}
  /\ runs' = Put(r, Catch(Run(r), IF Run(r).pc = "FETCH" THEN "FETCH" ELSE "QUERY"))
  /\ UNCHANGED <<exportJobs, checkedOut, bench, reply, enc>>

Min(a, b) == IF a < b THEN a ELSE b

BatchSize(fmt) == IF fmt = "parquet" THEN ParquetBatchRows ELSE BatchRows

\* Variant of FetchOk: a batch is written in front of the earlier output.
FetchOkNewestFirst(r) ==
  /\ Run(r).pc = "FETCH"
  /\ LET run == [Run(r) EXCEPT !.fetches = @ + 1]
         k == Min(BatchSize(run.fmt), run.left)
         first == run.total - run.left + 1
         rows == Rows(first, first + k - 1)
     IN runs' = Put(r,
          IF k = 0 THEN Issue(run, "CLOSE")
          ELSE IF run.fmt = "parquet"
               THEN [run EXCEPT !.pc = "append", !.left = @ - k, !.pend = rows]
               ELSE Issue([run EXCEPT !.left = @ - k, !.out = rows \o @, !.sent = TRUE],
                          "FETCH"))
  /\ UNCHANGED <<exportJobs, checkedOut, bench, reply, enc>>

\* FETCH returns: an empty result ends the loop (CLOSE is issued); otherwise
\* json/xml write the batch and issue the next FETCH at once, parquet starts
\* appending the rows one by one.
FetchOk(r) ==
  /\ Run(r).pc = "FETCH"
  /\ LET run == [Run(r) EXCEPT !.fetches = @ + 1]
         k == Min(BatchSize(run.fmt), run.left)
         first == run.total - run.left + 1
         rows == Rows(first, first + k - 1)
     IN runs' = Put(r,
          IF k = 0 THEN Issue(run, "CLOSE")
          ELSE IF run.fmt = "parquet"
               THEN [run EXCEPT !.pc = "append", !.left = @ - k, !.pend = rows]
               ELSE Issue(SinkWrite([run EXCEPT !.left = @ - k], rows), "FETCH"))
  /\ UNCHANGED <<exportJobs, checkedOut, bench, reply, enc>>

\* COMMIT succeeds: json/xml write the closing token, end the stream and
\* return; parquet goes on to close the file writer.
CommitOk(r) ==
  /\ Run(r).pc = "COMMIT"
  /\ runs' = Put(r,
        IF Run(r).fmt = "parquet"
        THEN [Run(r) EXCEPT !.pc = "writerClose", !.txn = "committed"]
        ELSE [SinkWrite([Run(r) EXCEPT !.txn = "committed"], <<>>)
                EXCEPT !.pc = "release", !.closing = @ + 1, !.ended = TRUE])
  /\ UNCHANGED <<exportJobs, checkedOut, bench, reply, enc>>

\* ROLLBACK succeeds: the original error is rethrown.
RollbackOk(r) ==
  /\ Run(r).pc = "ROLLBACK"
  /\ runs' = Put(r,
        [Run(r) EXCEPT !.pc = "release", !.rb = "ok", !.thrown = Run(r).err,
                  !.txn = IF @ = "open" THEN "rolledback" ELSE @])
  /\ UNCHANGED <<exportJobs, checkedOut, bench, reply, enc>>

\* Variant of RollbackFail: the rollback error escapes the catch block.
RollbackFailShadows(r) ==
  /\ Run(r).pc = "ROLLBACK"
  /\ runs' = Put(r,
        [Run(r) EXCEPT !.pc = "release", !.rb = "failed", !.thrown = ErrRollback])
  /\ UNCHANGED <<exportJobs, checkedOut, bench, reply, enc>>

\* ROLLBACK fails: the rollback error is ignored, the original error rethrown.
RollbackFail(r) ==
  /\ Run(r).pc = "ROLLBACK"
  /\ runs' = Put(r,
        [Run(r) EXCEPT !.pc = "release", !.rb = "failed", !.thrown = Run(r).err])
  /\ UNCHANGED <<exportJobs, checkedOut, bench, reply, enc>>

\* ------------------------------------------------------- parquet writer
\* The sample query and ParquetWriter.openFile are awaited before the promise
\* with the try/catch is built: an error there is thrown without a ROLLBACK.
\* The sample query is SELECT ... FROM records LIMIT 1 with no ORDER BY: it
\* returns whichever row the database reads first, or none from an empty
\* table, and createParquetSchema infers the column types from it.
SampleOk(r) ==
  /\ Run(r).pc = "SAMPLE"
  /\ \E row \in (IF Run(r).total = 0 THEN {0} ELSE 1..Run(r).total) :
       runs' = Put(r, [Run(r) EXCEPT !.pc = "openFile", !.schema = row])
  /\ UNCHANGED <<exportJobs, checkedOut, bench, reply, enc>>

SampleFail(r) ==
  /\ Run(r).pc = "SAMPLE"
  /\ runs' = Put(r,
        [Run(r) EXCEPT !.pc = "release", !.err = "SAMPLE", !.thrown = "SAMPLE"])
  /\ UNCHANGED <<exportJobs, checkedOut, bench, reply, enc>>

\* openFile creates the scratch file; the promise executor then issues BEGIN.
OpenFileOk(r) ==
  /\ Run(r).pc = "openFile"
  /\ runs' = Put(r, Issue([Run(r) EXCEPT !.file = TRUE], "BEGIN"))
  /\ UNCHANGED <<exportJobs, checkedOut, bench, reply, enc>>

OpenFileFail(r) ==
  /\ Run(r).pc = "openFile"
  /\ runs' = Put(r,
        [Run(r) EXCEPT !.pc = "release", !.err = "OPENFILE", !.thrown = "OPENFILE"])
  /\ UNCHANGED <<exportJobs, checkedOut, bench, reply, enc>>

\* await writer.appendRow(parquetRow) for one row of the fetched batch.  The
\* ParquetWriter was opened with rowGroupSize: 10000: appendRow adds the row
\* to the writer's row-group buffer and writes the buffer to the file as one
\* row group only once it holds rowGroupSize rows.  After the last row of
\* the batch the next FETCH is issued.
AppendOk(r) ==
  /\ Run(r).pc = "append"
  /\ LET rowBuffer == Append(Run(r).group, Head(Run(r).pend))
         written == Len(rowBuffer) >= RowGroupRows
         run == [Run(r) EXCEPT !.pend = Tail(@),
                               !.group = IF written THEN <<>> ELSE rowBuffer,
                               !.out = IF written THEN @ \o rowBuffer ELSE @]
     IN runs' = Put(r, IF run.pend = <<>> THEN Issue(run, "FETCH") ELSE run)
  /\ UNCHANGED <<exportJobs, checkedOut, bench, reply, enc>>

\* appendRow rejects (a row that does not fit the schema, a disk error).
AppendFail(r) ==
  /\ Run(r).pc = "append"
  /\ runs' = Put(r, Catch(Run(r), "APPEND"))
  /\ UNCHANGED <<exportJobs, checkedOut, bench, reply, enc>>

\* await writer.close() after COMMIT: the rows still in the row-group buffer
\* are written to the file as the last row group, then the footer.
WriterCloseOk(r) ==
  /\ Run(r).pc = "writerClose"
  /\ runs' = Put(r, [Run(r) EXCEPT !.pc = "release", !.group = <<>>,
                                   !.out = @ \o Run(r).group])
  /\ UNCHANGED <<exportJobs, checkedOut, bench, reply, enc>>

WriterCloseFail(r) ==
  /\ Run(r).pc = "writerClose"
  /\ runs' = Put(r, Catch(Run(r), "WRITERCLOSE"))
  /\ UNCHANGED <<exportJobs, checkedOut, bench, reply, enc>>

\* ------------------------- csv writer and the event-based json writer
\* queryStream 'row': the line is appended to lineBuffer, which is written
\* out every FlushRows-th row.
RowEvent(r) ==
  /\ Run(r).pc = "rows"
  /\ Run(r).left > 0
  /\ LET run == Run(r)
         batchCount == run.total - run.left + 1
     IN runs' = Put(r,
          IF batchCount % FlushRows = 0
          THEN SinkWrite([run EXCEPT !.left = @ - 1, !.lineBuf = <<>>],
                         Append(run.lineBuf, batchCount))
          ELSE [run EXCEPT !.left = @ - 1, !.lineBuf = Append(@, batchCount)])
  /\ UNCHANGED <<exportJobs, checkedOut, bench, reply, enc>>

\* Variant of RowsEnd: the rest of lineBuffer is not written.
RowsEndNoFlush(r) ==
  /\ Run(r).pc = "rows"
  /\ Run(r).left = 0
  /\ runs' = Put(r, [Run(r) EXCEPT !.pc = "release", !.ended = TRUE, !.lineBuf = <<>>])
  /\ UNCHANGED <<exportJobs, checkedOut, bench, reply, enc>>

\* queryStream 'end': the rest of lineBuffer (rowBuffer) is written, the
\* JSON writer adds ']', the stream is ended and the promise resolved.
RowsEnd(r) ==
  /\ Run(r).pc = "rows"
  /\ Run(r).left = 0
  /\ LET run == Run(r)
         flushed == IF Len(run.lineBuf) > 0
                    THEN SinkWrite([run EXCEPT !.lineBuf = <<>>], run.lineBuf)
                    ELSE run
         closed == IF run.fmt = "json"
                   THEN [SinkWrite(flushed, <<>>) EXCEPT !.closing = @ + 1]
                   ELSE flushed
     IN runs' = Put(r, [closed EXCEPT !.pc = "release", !.ended = TRUE])
  /\ UNCHANGED <<exportJobs, checkedOut, bench, reply, enc>>

\* queryStream 'error': the promise is rejected; there is no transaction
\* and no catch block.
RowsError(r) ==
  /\ Run(r).pc = "rows"
  /\ runs' = Put(r,
        [Run(r) EXCEPT !.pc = "release", !.err = "QUERY", !.thrown = "QUERY",
                  !.left = 0, !.lineBuf = <<>>, !.out = <<>>])
  /\ UNCHANGED <<exportJobs, checkedOut, bench, reply, enc>>

\* ----------------------------------------- back in the download helpers
\* finally { client.release() }.  A text helper then returns or rethrows to
\* the route handler.  handleParquetDownload goes on: after a success it
\* registers its 'finish' listener, pipes the scratch file to the response
\* and waits; after an error its catch calls fs.unlink on the scratch file
\* and rethrows without waiting for the unlink.
\* Variant of Release: client.release() after the await instead of in a
\* finally block, so it is skipped when the writer throws.
ReleaseAfterAwait(r) ==
  /\ Run(r).pc = "release"
  /\ checkedOut' = IF Run(r).thrown = "none" THEN checkedOut - 1 ELSE checkedOut
  /\ runs' = Put(r,
        [Run(r) EXCEPT !.held = Run(r).thrown # "none",
                  !.rel = IF Run(r).thrown = "none" THEN @ + 1 ELSE @,
                  !.pc = IF r \in RunIds /\ Run(r).fmt = "parquet"
                            /\ Run(r).thrown = "none"
                         THEN "sendFile" ELSE "settle",
                  !.piped = r \in RunIds /\ Run(r).fmt = "parquet"
                              /\ Run(r).thrown = "none",
                  !.listen = r \in RunIds /\ Run(r).fmt = "parquet"
                               /\ Run(r).thrown = "none",
                  !.unl = r \in RunIds /\ Run(r).fmt = "parquet"
                            /\ Run(r).thrown # "none"])
  /\ UNCHANGED <<exportJobs, bench, reply, enc>>

Release(r) ==
  /\ Run(r).pc = "release"
  /\ checkedOut' = checkedOut - 1
  /\ runs' = Put(r,
        [Run(r) EXCEPT !.held = FALSE, !.rel = @ + 1,
                  !.pc = IF r \in RunIds /\ Run(r).fmt = "parquet"
                            /\ Run(r).thrown = "none"
                         THEN "sendFile" ELSE "settle",
                  !.piped = r \in RunIds /\ Run(r).fmt = "parquet"
                              /\ Run(r).thrown = "none",
                  !.listen = r \in RunIds /\ Run(r).fmt = "parquet"
                               /\ Run(r).thrown = "none",
                  !.unl = r \in RunIds /\ Run(r).fmt = "parquet"
                            /\ Run(r).thrown # "none"])
  /\ UNCHANGED <<exportJobs, bench, reply, enc>>

\* res 'finish': the response has been written out to a connected client,
\* either the piped scratch file or, after the promise was rejected, the
\* route handler's own answer.  The listener, which stays attached, calls
\* fs.unlink and returns.
SendFinish(r) ==
  /\ Run(r).listen
  /\ Run(r).open
  /\ \/ Run(r).pc = "sendFile"
     \/ Run(r).pc = "done" /\ Run(r).resp \in {"500", "end"}
  /\ runs' = Put(r, [Run(r) EXCEPT !.listen = FALSE, !.unl = TRUE, !.sent = TRUE,
                       !.piped = FALSE,
                       !.pc = IF @ = "sendFile" THEN "unlink" ELSE @])
  /\ UNCHANGED <<exportJobs, checkedOut, bench, reply, enc>>

\* The callback of fs.unlink: the file is gone; the 'finish' listener's
\* callback resolves the promise the handler waits for.
UnlinkOk(r) ==
  /\ Run(r).unl
  /\ runs' = Put(r, [Run(r) EXCEPT !.unl = FALSE, !.file = FALSE,
                       !.pc = IF @ = "unlink" THEN "settle" ELSE @])
  /\ UNCHANGED <<exportJobs, checkedOut, bench, reply, enc>>

\* fs.unlink fails: the error is logged, the file stays as it is, the
\* promise is resolved all the same.
UnlinkFail(r) ==
  /\ Run(r).unl
  /\ runs' = Put(r, [Run(r) EXCEPT !.unl = FALSE,
                       !.pc = IF @ = "unlink" THEN "settle" ELSE @])
  /\ UNCHANGED <<exportJobs, checkedOut, bench, reply, enc>>

\* The first read of the scratch file completes and the pipe writes the
\* bytes to the response: a response that was closed already when the pipe
\* was set up drops them.
SendChunk(r) ==
  /\ Run(r).pc = "sendFile"
  /\ Run(r).piped
  /\ ~Run(r).sent
  /\ Run(r).lost = "no"
  /\ runs' = Put(r, SinkWrite(Run(r), <<>>))
  /\ UNCHANGED <<exportJobs, checkedOut, bench, reply, enc>>

\* fileStream 'error': the returned promise is rejected.  The promise was
\* returned without an await, so the helper's catch (with its unlink) does
\* not see the rejection; it goes to the route handler's catch.  The
\* 'finish' listener stays on the response.
FileReadError(r) ==
  /\ Run(r).pc = "sendFile"
  /\ runs' = Put(r,
        [Run(r) EXCEPT !.pc = "settle", !.err = "READ", !.thrown = "READ",
                  !.piped = FALSE])
  /\ UNCHANGED <<exportJobs, checkedOut, bench, reply, enc>>

\* res.setHeader('Content-Encoding', 'gzip') of the text helpers: set before
\* pool.connect() and never removed.
ContentEncodingGzip(run) == run.gz

\* The route handler after its await: completed and completedAt, or the
\* catch with failed and the error's message, then the 500 JSON payload if
\* no header has been sent yet and res.end() otherwise.
Settle(r) ==
  /\ r \in RunIds
  /\ Run(r).pc = "settle"
  /\ exportJobs' = [exportJobs EXCEPT ![Run(r).job] =
        IF Run(r).thrown = "none"
        THEN [@ EXCEPT !.status = "completed", !.completedAt = r]
        ELSE [@ EXCEPT !.status = "failed", !.error = Run(r).thrown]]
  /\ runs' = Put(r, Finished(
        [Run(r) EXCEPT !.resp = IF Run(r).thrown = "none" THEN @
                                ELSE IF Run(r).sent THEN "end" ELSE "500"]))
  /\ UNCHANGED <<checkedOut, bench, reply, enc>>

\* ---------------------------------------------------------- benchmark
\* runBenchmark: Promise.all over benchmarkCSV, benchmarkJSON, benchmarkXML
\* and benchmarkParquet, each run up to its await pool.connect().
BenchStart ==
  /\ bench = "idle"
  /\ bench' = "running"
  /\ runs' = [r \in DOMAIN runs \cup BenchIds |->
        IF r \in BenchIds
        THEN [IdleRun EXCEPT !.pc = "connect", !.fmt = BenchFormat(r),
                             !.total = BenchRows, !.left = BenchRows]
        ELSE runs[r]]
  /\ UNCHANGED <<exportJobs, checkedOut, reply, enc>>

\* The write stream of a benchmark's text run opens its file: the file
\* exists from now on, whatever has become of the run.
FileOpen(r) ==
  /\ Run(r).opening
  /\ runs' = Put(r, [Run(r) EXCEPT !.opening = FALSE, !.file = TRUE])
  /\ UNCHANGED <<exportJobs, checkedOut, bench, reply, enc>>

\* How benchmarkX ends after its inner try/finally.  On success
\* fs.statSync measures the file, which throws ENOENT when the file does not
\* exist yet, then fs.unlink is called without waiting and the metrics are
\* returned.  On an error the catch unlinks the file if fs.existsSync finds
\* it, and rethrows.
BenchEnd(run) ==
  IF run.thrown = "none" /\ run.file THEN [run EXCEPT !.unl = TRUE]
  ELSE IF run.thrown = "none"
       THEN [run EXCEPT !.err = "ENOENT", !.thrown = "ENOENT"]
  ELSE [run EXCEPT !.file = FALSE]

\* benchmarkX settles.  Promise.all rejects with the first rejection and
\* resolves when all four have resolved.
BenchSettle(r) ==
  /\ r \in BenchIds
  /\ Run(r).pc = "settle"
  /\ runs' = Put(r, Finished(BenchEnd(Run(r))))
  /\ bench' =
        IF bench # "running" THEN bench
        ELSE IF BenchEnd(Run(r)).thrown # "none" THEN "rejected"
        ELSE IF \A b \in BenchIds \ {r} :
                  Run(b).pc = "done" /\ Run(b).thrown = "none"
             THEN "resolved" ELSE bench
  /\ UNCHANGED <<exportJobs, checkedOut, reply, enc>>

\* ------------------------------------------------------- the environment
\* The client closes its connection before the output is complete.  No
\* handler listens for it.  What the response had queued is discarded; a
\* gzip stream in front of it stops flowing; a scratch file piped into it
\* is unpiped.
ClientClose(r) ==
  /\ Run(r).pc \notin {"idle", "settle", "done"}
  /\ Run(r).open
  /\ ~Run(r).ended
  /\ runs' = Put(r,
        [Run(r) EXCEPT !.open = FALSE, !.full = Run(r).gz,
                  !.buf = IF Run(r).gz THEN @ ELSE <<>>,
                  !.piped = FALSE])
  /\ UNCHANGED <<exportJobs, checkedOut, bench, reply, enc>>

\* The gzip stream emits compressed bytes, which the pipe writes to the
\* response: its headers are sent.
GzipEmit(r) ==
  /\ Run(r).pc \notin {"idle", "connect", "settle", "done"}
  /\ Run(r).gz
  /\ Run(r).open
  /\ ~Run(r).sent
  /\ runs' = Put(r, [Run(r) EXCEPT !.sent = TRUE])
  /\ UNCHANGED <<exportJobs, checkedOut, bench, reply, enc>>

\* The sink's buffer fills up (a slow reader): from now on write() returns
\* false and chunks queue in memory.
SinkFull(r) ==
  /\ Run(r).pc \notin {"idle", "settle", "done"}
  /\ Run(r).fmt # "parquet"
  /\ Run(r).open
  /\ ~Run(r).full
  /\ ~Run(r).ended
  /\ runs' = Put(r, [Run(r) EXCEPT !.full = TRUE])
  /\ UNCHANGED <<exportJobs, checkedOut, bench, reply, enc>>

\* The sink accepts the oldest queued chunk; with nothing queued it emits
\* 'drain' and keeps up again.
SinkDrain(r) ==
  /\ Run(r).open
  /\ Run(r).full
  /\ runs' = Put(r,
        IF Run(r).buf = <<>> THEN [Run(r) EXCEPT !.full = FALSE]
        ELSE [Run(r) EXCEPT !.buf = Tail(@)])
  /\ UNCHANGED <<exportJobs, checkedOut, bench, reply, enc>>

\* The steps of a writer on its client, for any run.
WriterStep(r) ==
  \/ PoolConnect(r)
  \/ PoolConnectFail(r)
  \/ QueryOk(r)
  \/ QueryFail(r)
  \/ FetchOk(r)
  \/ CommitOk(r)
  \/ RollbackOk(r)
  \/ RollbackFail(r)
  \/ SampleOk(r)
  \/ SampleFail(r)
  \/ OpenFileOk(r)
  \/ OpenFileFail(r)
  \/ AppendOk(r)
  \/ AppendFail(r)
  \/ WriterCloseOk(r)
  \/ WriterCloseFail(r)
  \/ RowEvent(r)
  \/ RowsEnd(r)
  \/ RowsError(r)
  \/ Release(r)

\* The steps of the download handler around the writer.
HandlerStep(r) ==
  \/ SendChunk(r)
  \/ SendFinish(r)
  \/ UnlinkOk(r)
  \/ UnlinkFail(r)
  \/ FileReadError(r)
  \/ Settle(r)

\* Job creation and concurrent downloads; every client stays connected.
Next ==
  \/ \E req \in LifecycleRequests : CreateJob(req)
  \/ \E r \in RunIds, id \in JobIds : DownloadStart(r, id)
  \/ \E r \in RunIds : WriterStep(r)
  \/ \E r \in RunIds : HandlerStep(r)
  \/ \E r \in RunIds : GzipEmit(r)

Spec == Init /\ [][Next]_vars

\* One download whose client may close its connection and whose sink
\* accepts chunks at its own pace.
SinkRuns == {1}

SinkNext ==
  \/ \E req \in LifecycleRequests : CreateJob(req)
  \/ \E r \in SinkRuns, id \in JobIds, n \in 0..MaxRows : DownloadStartN(r, id, n)
  \/ \E r \in SinkRuns : WriterStep(r)
  \/ \E r \in SinkRuns : HandlerStep(r)
  \/ \E r \in SinkRuns : ClientClose(r)
  \/ \E r \in SinkRuns : SinkFull(r)
  \/ \E r \in SinkRuns : SinkDrain(r)
  \/ \E r \in SinkRuns : GzipEmit(r)

SinkSpec == Init /\ [][SinkNext]_vars

\* The runs in which a step has raised an error.
Faulty == {r \in DOMAIN runs : runs[r].err # "none"}

\* One benchmark operation: four concurrent runs sharing the pool; the
\* database and the pool fail at most BenchFaults of them.
BenchNext ==
  \/ BenchStart
  \/ \E r \in BenchIds : WriterStep(r) /\ Cardinality(Faulty') <= BenchFaults
  \/ \E r \in BenchIds : FileOpen(r)
  \/ \E r \in BenchIds : BenchSettle(r)
  \/ \E r \in BenchIds : UnlinkOk(r)
  \/ \E r \in BenchIds : UnlinkFail(r)

BenchSpec == Init /\ [][BenchNext]_vars

\* The pool under both of its users: downloads of created jobs, or one
\* benchmark operation on a server that has served no export yet.
PoolNext ==
  \/ bench = "idle" /\ Next
  \/ /\ \A j \in JobIds : exportJobs[j] = NoJob
     /\ DOMAIN runs \subseteq BenchIds
     /\ BenchNext

PoolSpec == Init /\ [][PoolNext]_vars

\* More export runs than pool clients: two downloads beside the four runs
\* of a benchmark operation, each run followed up to its pool.connect()
\* and, when that call is rejected, to the end of its handler.  The runs
\* that got a client are in the middle of their exports.
ExhaustNext ==
  \/ \E req \in LifecycleRequests : CreateJob(req)
  \/ \E r \in RunIds, id \in JobIds : DownloadStart(r, id)
  \/ BenchStart
  \/ \E r \in AllRuns : PoolConnect(r)
  \/ \E r \in AllRuns : PoolConnectTimeout(r)
  \/ \E r \in RunIds : Settle(r)
  \/ \E r \in RunIds : UnlinkOk(r)
  \/ \E r \in RunIds : UnlinkFail(r)
  \/ \E r \in BenchIds : BenchSettle(r)

ExhaustSpec == Init /\ [][ExhaustNext]_vars

\* Every format with every compression value: the jobs are created or
\* rejected and the created ones downloaded, each download followed up to
\* its pool.connect(), where the response headers and the gzip stage are
\* in place, and to the end of its handler when that call is rejected.
CompressionRequests == {req \in Requests : req.columns = <<"ok">>}

GzipNext ==
  \/ \E req \in CompressionRequests : CreateJob(req)
  \/ \E req \in CompressionRequests : RejectJob(req)
  \/ \E r \in RunIds, id \in JobIds : DownloadStart(r, id)
  \/ \E r \in RunIds : PoolConnect(r)
  \/ \E r \in RunIds : PoolConnectFail(r)
  \/ \E r \in RunIds : Settle(r)
  \/ \E r \in RunIds : UnlinkOk(r)
  \/ \E r \in RunIds : UnlinkFail(r)

GzipSpec == Init /\ [][GzipNext]_vars

\* Job creation with every request body.
CreateNext ==
  \/ \E req \in Requests : CreateJob(req)
  \/ \E req \in Requests : RejectJob(req)

CreateSpec == Init /\ [][CreateNext]_vars

\* The download under the assumption that every pool and database request
\* is eventually answered, that a response whose client is connected
\* eventually finishes, that every fs.unlink removes its file, and that a
\* settled handler runs on.  A read error of the scratch file may happen but
\* is not bound to.
FairSinkNext ==
  \/ \E req \in LifecycleRequests : CreateJob(req)
  \/ \E r \in SinkRuns, id \in JobIds, n \in 0..MaxRows : DownloadStartN(r, id, n)
  \/ \E r \in SinkRuns : WriterStep(r)
  \/ \E r \in SinkRuns : SendChunk(r)
  \/ \E r \in SinkRuns : SendFinish(r)
  \/ \E r \in SinkRuns : UnlinkOk(r)
  \/ \E r \in SinkRuns : FileReadError(r)
  \/ \E r \in SinkRuns : Settle(r)
  \/ \E r \in SinkRuns : ClientClose(r)
  \/ \E r \in SinkRuns : SinkFull(r)
  \/ \E r \in SinkRuns : SinkDrain(r)
  \/ \E r \in SinkRuns : GzipEmit(r)

FairSinkSpec ==
  /\ Init /\ [][FairSinkNext]_vars
  /\ \A r \in SinkRuns :
       WF_vars(WriterStep(r) \/ SendFinish(r) \/ UnlinkOk(r) \/ Settle(r))

\* ------------------------------------------------ the writers' encodings
\* Text is a sequence of one-character strings.  Chars is the alphabet of
\* the cell texts fed to the writers, MaxText their longest length.
MaxText == 3
Chars == {"x", ",", "\"", "\n", "\r"}
Texts == UNION {[1..n -> Chars] : n \in 0..MaxText}

\* What row[source] can be: null, undefined (the row has no such key), or
\* a string.
Null == [kind |-> "null", text |-> <<>>]
Undefined == [kind |-> "undefined", text |-> <<>>]
Str(t) == [kind |-> "string", text |-> t]
Values == {Null, Undefined} \cup {Str(t) : t \in Texts}

\* String(value) for a value that is not an object.
String(v) ==
  IF v.kind = "undefined" THEN <<"u", "n", "d", "e", "f", "i", "n", "e", "d">>
  ELSE IF v.kind = "null" THEN <<"n", "u", "l", "l">>
  ELSE v.text

\* str.replace(/c/g, by): every occurrence of the character c replaced.
RECURSIVE ReplaceAll(_, _, _)
ReplaceAll(t, c, by) ==
  IF t = <<>> THEN <<>>
  ELSE (IF Head(t) = c THEN by ELSE <<Head(t)>>) \o ReplaceAll(Tail(t), c, by)

Includes(t, c) == \E i \in DOMAIN t : t[i] = c

\* parts.join(sep) for a sequence of texts.
RECURSIVE Join(_, _)
Join(parts, sep) ==
  IF parts = <<>> THEN <<>>
  ELSE IF Len(parts) = 1 THEN parts[1]
  ELSE parts[1] \o sep \o Join(Tail(parts), sep)

\* One CSV field, the body of columnMap.map in the 'row' handler: null
\* becomes '', anything else String(value); the text is wrapped in quotes,
\* its quotes doubled, when it includes ',', '"' or '\n'.
csvField(v) ==
  LET value == IF v.kind = "null" THEN <<>> ELSE String(v)
  IN  IF Includes(value, ",") \/ Includes(value, "\"") \/ Includes(value, "\n")
      THEN <<"\"">> \o ReplaceAll(value, "\"", <<"\"", "\"">>) \o <<"\"">>
      ELSE value

\* JSON.stringify of a string: quoted, with '"', line feed and carriage
\* return escaped by a backslash.
jsonString(t) ==
  <<"\"">> \o ReplaceAll(ReplaceAll(ReplaceAll(t, "\"", <<"\\", "\"">>),
                                   "\n", <<"\\", "n">>),
                        "\r", <<"\\", "r">>) \o <<"\"">>

\* JSON.stringify of a property value that is null or a string.
jsonValue(v) == IF v.kind = "null" THEN <<"n", "u", "l", "l">> ELSE jsonString(v.text)

\* escapeXml on the alphabet: '"' becomes &quot; (no other character of
\* Chars is special in XML).
escapeXml(t) == ReplaceAll(t, "\"", <<"&", "q", "u", "o", "t", ";">>)

\* One element of buildXmlRecord: self-closing for null and undefined,
\* otherwise the escaped text between the tags.
xmlElement(target, v) ==
  IF v.kind \in {"null", "undefined"}
  THEN <<"<">> \o target \o <<"/", ">">>
  ELSE <<"<">> \o target \o <<">">> \o escapeXml(String(v))
         \o <<"<", "/">> \o target \o <<">">>

\* A row of a query result: a record of the selected columns.  A source
\* name that is not a key of the row reads as undefined.
Sources == {Source(k) : k \in GoodKinds}
Lookup(row, source) == IF source \in DOMAIN row THEN row[source] ELSE Undefined

\* The CSV line of a row: its fields in column-list order joined by ','
\* and ended by a newline.
csvLine(cols, row) ==
  Join([i \in DOMAIN cols |-> csvField(Lookup(row, Source(cols[i])))], <<",">>)
    \o <<"\n">>

\* obj[key] = val on an object kept as its sequence of <<key, value>>
\* members in insertion order.
SetKey(obj, key, val) ==
  IF \E k \in DOMAIN obj : obj[k][1] = key
  THEN [k \in DOMAIN obj |-> IF obj[k][1] = key THEN <<key, val>> ELSE obj[k]]
  ELSE Append(obj, <<key, val>>)

\* jsonObj after the first n column mappings: jsonObj[target] = row[source].
RECURSIVE jsonObj(_, _, _)
jsonObj(cols, row, n) ==
  IF n = 0 THEN <<>>
  ELSE SetKey(jsonObj(cols, row, n - 1), Target(cols[n]),
              Lookup(row, Source(cols[n])))

Defined(m) == m[2].kind # "undefined"
Member(m) == jsonString(<<m[1]>>) \o <<":">> \o jsonValue(m[2])

\* JSON.stringify(jsonObj): members whose value is undefined are left out.
jsonRecord(cols, row) ==
  LET obj == SelectSeq(jsonObj(cols, row, Len(cols)), Defined)
  IN  <<"{">> \o Join([k \in DOMAIN obj |-> Member(obj[k])], <<",">>) \o <<"}">>

RECURSIVE Concat(_)
Concat(parts) == IF parts = <<>> THEN <<>> ELSE Head(parts) \o Concat(Tail(parts))

\* buildXmlRecord: one element per column mapping inside <record>.
buildXmlRecord(cols, row) ==
  <<"<", "r", "e", "c", "o", "r", "d", ">">>
    \o Concat([i \in DOMAIN cols |->
                 xmlElement(<<Target(cols[i])>>, Lookup(row, Source(cols[i])))])
    \o <<"<", "/", "r", "e", "c", "o", "r", "d", ">">>

\* One row through each writer's per-row encoding, for the column list
\* [{source: 'a', target: 'b'}]: the row holds a (null or a string) or has
\* no such key.
RowCols == <<"ok">>
RowInputs ==
  {[c \in {} |-> Null]} \cup {[c \in {"a"} |-> v] : v \in Values \ {Undefined}}

RowInit ==
  /\ exportJobs = [j \in JobIds |-> NoJob]
  /\ runs = [r \in {} |-> IdleRun]
  /\ checkedOut = 0
  /\ bench = "idle"
  /\ reply = NoReply
  /\ enc \in {[pc |-> "row", cols |-> RowCols, row |-> row, out |-> <<>>] :
                row \in RowInputs}

\* The 'row' handler of streamToCSV up to the line it adds to the batch.
CsvRow ==
  /\ enc.pc = "row"
  /\ enc' = [enc EXCEPT !.pc = "csv", !.out = csvLine(enc.cols, enc.row)]
  /\ UNCHANGED <<exportJobs, runs, checkedOut, bench, reply>>

\* The body of streamToJSON's row loop: the serialized record.
JsonRow ==
  /\ enc.pc = "row"
  /\ enc' = [enc EXCEPT !.pc = "json", !.out = jsonRecord(enc.cols, enc.row)]
  /\ UNCHANGED <<exportJobs, runs, checkedOut, bench, reply>>

\* buildXmlRecord on the row.
XmlRow ==
  /\ enc.pc = "row"
  /\ enc' = [enc EXCEPT !.pc = "xml", !.out = buildXmlRecord(enc.cols, enc.row)]
  /\ UNCHANGED <<exportJobs, runs, checkedOut, bench, reply>>

RowNext == CsvRow \/ JsonRow \/ XmlRow

RowSpec == RowInit /\ [][RowNext]_vars

\* A whole export's text: the column list, the rows the query yields in
\* key order and the batch size of the fetches.  A row holds null or the
\* text x under each of its keys; a selected column may be missing from
\* the row's keys, and row[source] is then undefined.
DocCols == UNION {[1..n -> GoodKinds] : n \in 1..MaxCols}
DocValues == {Null, Str(<<"x">>)}
DocRows == UNION {[keys -> DocValues] : keys \in SUBSET Sources}
Datasets == UNION {[1..n -> DocRows] : n \in 0..MaxRows}

\* Every row of the dataset holds every selected column.
Complete(rows) == \A n \in DOMAIN rows : DOMAIN rows[n] = Sources

DocInit ==
  /\ exportJobs = [j \in JobIds |-> NoJob]
  /\ runs = [r \in {} |-> IdleRun]
  /\ checkedOut = 0
  /\ bench = "idle"
  /\ reply = NoReply
  /\ enc \in {e \in [pc : {"start"}, fmt : {"csv", "json", "xml"},
                      writer : JsonWriters \cup {"none"}, cols : DocCols,
                      rows : Datasets, batchSize : 1..BatchRows, at : {0},
                      text : {<<>>}, lineBuffer : {<<>>}, rowBuffer : {<<>>},
                      firstRow : {TRUE}] :
               /\ (e.fmt = "json") <=> (e.writer \in JsonWriters)
               /\ (e.fmt \in {"csv", "json"}) => Complete(e.rows)}

\* streamToCSV up to the query: the header line is written.
CsvHeader ==
  /\ enc.pc = "start" /\ enc.fmt = "csv"
  /\ enc' = [enc EXCEPT
       !.pc = "rows",
       !.text = Join([i \in DOMAIN enc.cols |-> <<Target(enc.cols[i])>>], <<",">>)
                  \o <<"\n">>]
  /\ UNCHANGED <<exportJobs, runs, checkedOut, bench, reply>>

\* The 'row' event: the line joins the buffer, which is written out and
\* emptied after every FlushRows rows.
CsvRowEvent ==
  /\ enc.pc = "rows" /\ enc.fmt = "csv" /\ enc.at < Len(enc.rows)
  /\ LET buffer == enc.lineBuffer \o csvLine(enc.cols, enc.rows[enc.at + 1])
         flush == (enc.at + 1) % FlushRows = 0
     IN  enc' = [enc EXCEPT
           !.at = @ + 1,
           !.text = IF flush THEN @ \o buffer ELSE @,
           !.lineBuffer = IF flush THEN <<>> ELSE buffer]
  /\ UNCHANGED <<exportJobs, runs, checkedOut, bench, reply>>

\* The 'end' event: what the buffer still holds is written and the output
\* ended.
CsvEndNoFlush ==
  /\ enc.pc = "rows" /\ enc.fmt = "csv" /\ enc.at = Len(enc.rows)
  /\ enc' = [enc EXCEPT !.pc = "done", !.lineBuffer = <<>>]
  /\ UNCHANGED <<exportJobs, runs, checkedOut, bench, reply>>

CsvEnd ==
  /\ enc.pc = "rows" /\ enc.fmt = "csv" /\ enc.at = Len(enc.rows)
  /\ enc' = [enc EXCEPT !.pc = "done", !.text = @ \o enc.lineBuffer,
                        !.lineBuffer = <<>>]
  /\ UNCHANGED <<exportJobs, runs, checkedOut, bench, reply>>

\* Either streamToJSON up to its first rows: '[' is written, firstRow is
\* true; the cursor version goes on to its loop, the event version has
\* submitted its query.
JsonOpen ==
  /\ enc.pc = "start" /\ enc.fmt = "json"
  /\ enc' = [enc EXCEPT !.pc = IF enc.writer = "cursor" THEN "fetch" ELSE "rows",
                        !.text = <<"[">>]
  /\ UNCHANGED <<exportJobs, runs, checkedOut, bench, reply>>

\* The 'row' event of the event version: the record after its prefix joins
\* rowBuffer, which is written out and emptied after every FlushRows rows.
JsonRowEvent ==
  /\ enc.pc = "rows" /\ enc.fmt = "json" /\ enc.at < Len(enc.rows)
  /\ LET buffer == enc.rowBuffer \o (IF enc.firstRow THEN <<>> ELSE <<",">>)
                      \o jsonRecord(enc.cols, enc.rows[enc.at + 1])
         flush == (enc.at + 1) % FlushRows = 0
     IN  enc' = [enc EXCEPT
           !.at = @ + 1,
           !.firstRow = FALSE,
           !.text = IF flush THEN @ \o buffer ELSE @,
           !.rowBuffer = IF flush THEN <<>> ELSE buffer]
  /\ UNCHANGED <<exportJobs, runs, checkedOut, bench, reply>>

\* The 'end' event of the event version: what rowBuffer still holds is
\* written, then ']', and the output ended.
JsonEnd ==
  /\ enc.pc = "rows" /\ enc.fmt = "json" /\ enc.at = Len(enc.rows)
  /\ enc' = [enc EXCEPT !.pc = "done", !.text = @ \o enc.rowBuffer \o <<"]">>,
                        !.rowBuffer = <<>>]
  /\ UNCHANGED <<exportJobs, runs, checkedOut, bench, reply>>

\* jsonBatch for the rows of one fetch: each record after its prefix, ''
\* while firstRow is true and ',' from then on.
RECURSIVE jsonBatch(_, _, _)
jsonBatch(cols, rows, firstRow) ==
  IF rows = <<>> THEN <<>>
  ELSE (IF firstRow THEN <<>> ELSE <<",">>) \o jsonRecord(cols, Head(rows))
         \o jsonBatch(cols, Tail(rows), FALSE)

\* One pass of the loop: the fetch of up to batchSize rows; an empty result
\* ends the loop, any other is written as one batch.
JsonFetchFirstPerBatch ==
  /\ enc.pc = "fetch" /\ enc.fmt = "json"
  /\ LET k == Min(enc.batchSize, Len(enc.rows) - enc.at)
     IN  IF k = 0
         THEN enc' = [enc EXCEPT !.pc = "close"]
         ELSE enc' = [enc EXCEPT
                !.at = @ + k,
                !.text = @ \o jsonBatch(enc.cols,
                                        SubSeq(enc.rows, enc.at + 1, enc.at + k),
                                        TRUE),
                !.firstRow = FALSE]
  /\ UNCHANGED <<exportJobs, runs, checkedOut, bench, reply>>

JsonFetch ==
  /\ enc.pc = "fetch" /\ enc.fmt = "json"
  /\ LET k == Min(enc.batchSize, Len(enc.rows) - enc.at)
     IN  IF k = 0
         THEN enc' = [enc EXCEPT !.pc = "close"]
         ELSE enc' = [enc EXCEPT
                !.at = @ + k,
                !.text = @ \o jsonBatch(enc.cols,
                                        SubSeq(enc.rows, enc.at + 1, enc.at + k),
                                        enc.firstRow),
                !.firstRow = FALSE]
  /\ UNCHANGED <<exportJobs, runs, checkedOut, bench, reply>>

\* After the loop: ']' is written and the output ended.
JsonClose ==
  /\ enc.pc = "close" /\ enc.fmt = "json"
  /\ enc' = [enc EXCEPT !.pc = "done", !.text = @ \o <<"]">>]
  /\ UNCHANGED <<exportJobs, runs, checkedOut, bench, reply>>

\* The text streamToXML writes first and last.
XmlPrologue ==
  <<"<", "?", "x", "m", "l", " ", "v", "e", "r", "s", "i", "o", "n", "=",
    "\"", "1", ".", "0", "\"", " ", "e", "n", "c", "o", "d", "i", "n", "g",
    "=", "\"", "U", "T", "F", "-", "8", "\"", "?", ">", "\n", "<", "r",
    "e", "c", "o", "r", "d", "s", ">", "\n">>
XmlEpilogue ==
  <<"<", "/", "r", "e", "c", "o", "r", "d", "s", ">">>

\* streamToXML up to its loop: the prologue and the root's open tag are
\* written.
XmlOpen ==
  /\ enc.pc = "start" /\ enc.fmt = "xml"
  /\ enc' = [enc EXCEPT !.pc = "fetch", !.text = XmlPrologue]
  /\ UNCHANGED <<exportJobs, runs, checkedOut, bench, reply>>

\* xmlBatch for the rows of one fetch: each record followed by a newline.
xmlBatch(cols, rows) ==
  Concat([n \in DOMAIN rows |-> buildXmlRecord(cols, rows[n]) \o <<"\n">>])

\* One pass of the loop: the fetch of up to batchSize rows; an empty result
\* ends the loop, any other is written as one batch.
XmlFetchOverwrites ==
  /\ enc.pc = "fetch" /\ enc.fmt = "xml"
  /\ LET k == Min(enc.batchSize, Len(enc.rows) - enc.at)
     IN  IF k = 0
         THEN enc' = [enc EXCEPT !.pc = "close"]
         ELSE enc' = [enc EXCEPT
                !.at = @ + k,
                !.text = XmlPrologue
                           \o xmlBatch(enc.cols,
                                       SubSeq(enc.rows, enc.at + 1, enc.at + k))]
  /\ UNCHANGED <<exportJobs, runs, checkedOut, bench, reply>>

XmlFetch ==
  /\ enc.pc = "fetch" /\ enc.fmt = "xml"
  /\ LET k == Min(enc.batchSize, Len(enc.rows) - enc.at)
     IN  IF k = 0
         THEN enc' = [enc EXCEPT !.pc = "close"]
         ELSE enc' = [enc EXCEPT
                !.at = @ + k,
                !.text = @ \o xmlBatch(enc.cols,
                                       SubSeq(enc.rows, enc.at + 1, enc.at + k))]
  /\ UNCHANGED <<exportJobs, runs, checkedOut, bench, reply>>

\* After the loop: the root's close tag is written and the output ended.
XmlClose ==
  /\ enc.pc = "close" /\ enc.fmt = "xml"
  /\ enc' = [enc EXCEPT !.pc = "done", !.text = @ \o XmlEpilogue]
  /\ UNCHANGED <<exportJobs, runs, checkedOut, bench, reply>>

DocNext ==
  \/ CsvHeader \/ CsvRowEvent \/ CsvEnd
  \/ JsonOpen \/ JsonFetch \/ JsonClose \/ JsonRowEvent \/ JsonEnd
  \/ XmlOpen \/ XmlFetch \/ XmlClose

DocSpec == DocInit /\ [][DocNext]_vars

\* ================================================================ claims
StatusSteps ==
  {<<"absent", "pending">>, <<"pending", "processing">>,
   <<"processing", "completed">>, <<"processing", "failed">>}

\* C1: a job's status only changes along pending -> processing ->
\* completed | failed (after its creation); a completed or failed job never
\* changes status again.
C1_StatusStateMachine ==
  [][\A j \in JobIds :
       exportJobs'[j].status # exportJobs[j].status
         => <<exportJobs[j].status, exportJobs'[j].status>> \in StatusSteps]_vars

\* C2: a download request for an existing job that is not pending is
\* rejected: the registry (status, timestamps) is unchanged, the request
\* ends at once without a pool request, and no connection is acquired.
C2_NonPendingRejected ==
  [][\A r \in RunIds, id \in JobIds :
       (/\ exportJobs[id] # NoJob
        /\ exportJobs[id].status # "pending"
        /\ DownloadStart(r, id))
         => (/\ exportJobs' = exportJobs
             /\ runs'[r].pc = "done"
             /\ checkedOut' = checkedOut)]_vars

\* The runs of job j that are between 'status set to processing' and
\* 'status set to completed/failed'.
Executing(j) == {r \in RunIds : Run(r).job = j /\ Active(r)}

\* C3: at no time are two pipeline executions of the same job in progress.
C3_NoSelfOverlap ==
  \A j \in JobIds : Cardinality(Executing(j)) <= 1

\* C4: every job that enters processing eventually becomes completed or
\* failed, given that every database request and every sink eventually
\* succeeds, fails or is closed by the client.
C4_ProcessingEnds ==
  \A j \in JobIds :
    (exportJobs[j].status = "processing")
      ~> (exportJobs[j].status \in {"completed", "failed"})

\* C5: every pool client acquired by a run is released exactly once when the
\* run's writer has ended, on the success path and on every failure path:
\* the pool's count of checked-out clients is the number of runs holding one,
\* and it is 0 whenever no run is in progress.
C5_ReleasedExactlyOnce ==
  /\ \A r \in AllRuns :
       /\ Run(r).acq <= 1
       /\ Run(r).rel <= Run(r).acq
       /\ Run(r).held <=> (Run(r).acq = Run(r).rel + 1)
       /\ Run(r).pc \in {"settle", "sendFile", "done"} => Run(r).rel = Run(r).acq
  /\ checkedOut = Cardinality({r \in AllRuns : Run(r).held})
  /\ (\A r \in AllRuns : ~Active(r)) => checkedOut = 0

\* C5 witness: two downloads have ended, one successfully and one with an
\* error raised while it held its client; both released it, the pool is whole.
C5_Witness ==
  /\ \A r \in AllRuns : ~Active(r)
  /\ checkedOut = 0
  /\ \E r \in RunIds :
       Run(r).pc = "done" /\ Run(r).thrown = "none"
         /\ Run(r).acq = 1 /\ Run(r).rel = 1
  /\ \E r \in RunIds :
       Run(r).pc = "done" /\ Run(r).thrown \in {"QUERY", "FETCH", "APPEND"}
         /\ Run(r).acq = 1 /\ Run(r).rel = 1

\* The runs of job j that hold a pool client.
Holding(j) == {r \in RunIds : Run(r).job = j /\ Run(r).held}

\* C6: a job holds at most one pool client, and only while its status is
\* processing.
C6_OneConnectionPerJob ==
  \A j \in JobIds :
    /\ Cardinality(Holding(j)) <= 1
    /\ Holding(j) # {} => exportJobs[j].status = "processing"

\* The batches written to the sink that it has not accepted yet.
Unaccepted(r) == {i \in DOMAIN Run(r).buf : Len(Run(r).buf[i]) > 0}

\* C7: the next batch is not fetched before the sink accepted the previous
\* one, so the output written to a connected client's sink and not yet
\* accepted never exceeds one batch.
C7_Backpressure ==
  \A r \in RunIds : Run(r).open => Cardinality(Unaccepted(r)) <= 1

\* C8: a run that met a fetch error, or whose write of a batch to the sink
\* failed inside its open transaction, rolls the transaction back: it issues
\* no further request but ROLLBACK, and it has issued ROLLBACK by the time
\* its writer has ended, before the client is released.
C8_RollbackBeforeRethrow ==
  \A r \in RunIds :
    (Run(r).err \in {"FETCH", "APPEND"} \/ Run(r).lost = "open")
      => \/ Run(r).pc = "ROLLBACK"
         \/ Run(r).rb # "no"

\* C9: when a run fails and its ROLLBACK fails too, the error that reaches
\* the caller and the message stored in the job are the original error,
\* never the rollback's.
C9_OriginalErrorKept ==
  [][\A r \in RunIds :
       /\ (Run(r).rb = "failed" /\ Run(r).pc \in {"release", "settle"})
            => (Run(r).thrown = Run(r).err /\ Run(r).thrown # ErrRollback)
       /\ (Run(r).rb = "failed" /\ Settle(r))
            => (/\ exportJobs'[Run(r).job].status = "failed"
                /\ exportJobs'[Run(r).job].error = Run(r).err)]_vars

\* C9 witness: a run ended whose ROLLBACK failed; its job is failed with the
\* run's original error as the message.
C9_Witness ==
  \E r \in RunIds :
    /\ Run(r).pc = "done"
    /\ Run(r).rb = "failed"
    /\ Run(r).err \in {"QUERY", "FETCH", "APPEND", "WRITERCLOSE"}
    /\ Job(r).status = "failed"
    /\ Job(r).error = Run(r).err

\* C10: a run whose client closed its connection while the job was
\* processing ends with an error, its job failed.
C10_ClientCloseFailsJob ==
  \A r \in RunIds :
    (Run(r).pc = "done" /\ ~Run(r).open)
      => (Run(r).thrown # "none" /\ Job(r).status = "failed")
\* ------------------------------------------------------------- C11..C20
\* What the specification accepts as a job-creation request: a format of
\* the enumeration, a non-empty list of well-formed column pairs, and
\* compression absent or gzip, gzip not with parquet.
WellFormed(req) ==
  /\ req.format \in Formats
  /\ req.isArray /\ Len(req.columns) > 0
  /\ \A i \in DOMAIN req.columns : req.columns[i] \in GoodKinds
  /\ req.compression \in {"none", "gzip"}

WellFormedRequests == {req \in Requests : WellFormed(req)}
MalformedRequests == Requests \ WellFormedRequests

\* A step of router.post('/') on request req.
Post(req) == CreateJob(req) \/ RejectJob(req)

\* C12: a well-formed creation request is answered 201 and stores exactly
\* one new pending job under a fresh identifier, every other job untouched;
\* parquet with gzip is answered 400 UnsupportedCompression instead.
C12_ValidRequestCreatesJob ==
  /\ [](\A req \in WellFormedRequests :
          validateExportRequest(req) =
            IF req.format = "parquet" /\ req.compression = "gzip"
            THEN "UnsupportedCompression" ELSE "ok")
  /\ [][(reply'.body = "UnsupportedCompression" =>
            (reply'.code = 400 /\ exportJobs' = exportJobs))
         /\
         (reply'.code = 201 =>
            (/\ exportJobs[reply'.id] = NoJob
             /\ exportJobs'[reply'.id].status = "pending"
             /\ \E req \in WellFormedRequests :
                  /\ exportJobs'[reply'.id].format = req.format
                  /\ exportJobs'[reply'.id].columns = req.columns
                  /\ exportJobs'[reply'.id].compression = req.compression
             /\ \A j \in JobIds \ {reply'.id} :
                  exportJobs'[j] = exportJobs[j]))]_vars

\* C12 witness: both jobs of the registry were created, the second one
\* the latest answer, and both are still pending.
C12_Witness ==
  /\ reply = [code |-> 201, body |-> "pending", id |-> 2]
  /\ exportJobs[1].status = "pending"
  /\ exportJobs[2].status = "pending"
  /\ exportJobs[2].compression = "gzip"

\* C13: no malformed creation request is accepted: a request whose format
\* is outside the enumeration, whose columns are not a non-empty list of
\* well-formed pairs, or whose compression is present and not gzip is not
\* answered 201 and stores no job.
C13_MalformedRejected ==
  [][\A req \in MalformedRequests :
       Post(req) => (reply'.code # 201 /\ exportJobs' = exportJobs)]_vars

\* C14: job creation acquires no pool client and starts no database work,
\* and a request that is not answered 201 leaves the registry as it was.
\* (Every step of the job-creation specification is a creation request.)
C14_CreationTouchesNothingElse ==
  [][/\ checkedOut' = checkedOut
     /\ runs' = runs
     /\ bench' = bench
     /\ reply'.code # 201 => exportJobs' = exportJobs]_vars

\* C14 witness: a request was rejected after a job had been stored; the job
\* is still there, unchanged, and no client is checked out.
C14_Witness ==
  /\ reply.code = 400
  /\ reply.body = "InvalidColumns"
  /\ exportJobs[1].status = "pending"
  /\ exportJobs[2] = NoJob
  /\ checkedOut = 0

\* C15: a download request for an identifier that is not in the registry is
\* answered 404 and ends at once: the registry and the pool are unchanged,
\* every other run is untouched, and the run has written no byte and holds
\* no client.
C15_UnknownIdNotFound ==
  [][\A r \in RunIds, id \in JobIds :
       (exportJobs[id] = NoJob /\ DownloadStart(r, id)) =>
         /\ exportJobs' = exportJobs
         /\ checkedOut' = checkedOut
         /\ runs'[r] = [IdleRun EXCEPT !.pc = "done", !.resp = "404"]
         /\ \A q \in DOMAIN runs : runs'[q] = runs[q]]_vars

\* C15 witness: an unknown identifier was answered 404 while another run
\* was exporting job 1; job 2 still does not exist.
C15_Witness ==
  /\ exportJobs[2] = NoJob
  /\ Run(1).pc \notin {"idle", "done"} /\ Run(1).held
  /\ Run(2).pc = "done" /\ Run(2).resp = "404"

\* C16: a CSV or JSON export of a table of N >= 1 rows whose writer ended
\* without an error, its client still connected, has handed exactly the
\* rows 1..N to the sink, each once.
C16_ExactRowCount ==
  \A r \in RunIds :
    (/\ Run(r).fmt \in {"csv", "json"}
     /\ Run(r).pc \in {"release", "settle"}
     /\ Run(r).err = "none"
     /\ Run(r).open
     /\ Run(r).total >= 1)
      => (Len(Run(r).out) = Run(r).total /\ Run(r).out = Rows(1, Run(r).total))

\* C16 witness: a CSV export of MaxRows rows (one flush inside the loop and
\* one at the end) has ended with all rows written.
C16_Witness ==
  \E r \in RunIds :
    /\ Run(r).fmt = "csv"
    /\ Run(r).pc = "settle"
    /\ Run(r).err = "none"
    /\ Run(r).open
    /\ Run(r).total = MaxRows
    /\ Len(Run(r).out) = MaxRows

\* The rows of the chunks queued in the sink, oldest first.
RECURSIVE Flat(_)
Flat(chunks) == IF chunks = <<>> THEN <<>> ELSE Head(chunks) \o Flat(Tail(chunks))

\* The last n elements of sequence q.
Last(q, n) == SubSeq(q, Len(q) - n + 1, Len(q))

\* C17: at every moment of a run, for every format, what has been handed to
\* the sink is the first rows of the ordered query in query order, and the
\* chunks the sink has queued are the latest of them in the same order.
C17_QueryOrder ==
  \A r \in RunIds :
    /\ Run(r).out = Rows(1, Len(Run(r).out))
    /\ Run(r).err = "none" /\ (Run(r).open \/ Run(r).gz) =>
         Flat(Run(r).buf) = Last(Run(r).out, Len(Flat(Run(r).buf)))

\* C17 witness: a JSON export has written its first batch, which the full
\* sink has queued, and is fetching the second.
C17_Witness ==
  \E r \in RunIds :
    /\ Run(r).fmt = "json"
    /\ Run(r).pc = "FETCH"
    /\ Run(r).left > 0
    /\ Len(Run(r).out) = BatchRows
    /\ Run(r).buf = <<Rows(1, BatchRows)>>

\* C18: every scratch file a parquet download has created is eventually
\* deleted.
C18_ScratchFileDeleted ==
  \A r \in SinkRuns : Run(r).file ~> ~Run(r).file

\* C19: once the benchmark operation has ended, resolved or rejected, no
\* run of it holds a pool client and no temporary file of it exists.
C19_BenchmarkCleansUp ==
  bench \in {"resolved", "rejected"} =>
    \A b \in BenchIds : ~Run(b).held /\ ~Run(b).file

\* C20: a download that fails before any byte of the response was sent
\* answers with the error payload, which the client can read (the response
\* does not announce an encoding the payload does not have); one that fails
\* after bytes were sent ends the response without a payload.
C20_ErrorPayloadOrTermination ==
  [][\A r \in RunIds :
       (Settle(r) /\ Run(r).thrown # "none") =>
         IF Run(r).sent
         THEN runs'[r].resp = "end"
         ELSE runs'[r].resp = "500" /\ ~ContentEncodingGzip(Run(r))]_vars

\* C11: the handler marks a job completed only after a run without any
\* error, every row of the table written to the sink and no write failed;
\* after a run in which a step raised an error or a write failed it marks
\* the job failed with that error as the message.
C11_CompletedOnlyOnSuccess ==
  [][\A r \in RunIds :
       Settle(r) =>
         /\ exportJobs'[Run(r).job].status = "completed" =>
               /\ Run(r).err = "none"
               /\ Run(r).lost = "no"
               /\ Run(r).out = Rows(1, Run(r).total)
         /\ (Run(r).err # "none" \/ Run(r).lost # "no") =>
               /\ exportJobs'[Run(r).job].status = "failed"
               /\ Run(r).err # "none" => exportJobs'[Run(r).job].error = Run(r).err]_vars

\* ------------------------------------------------------------- C21..C30
\* C21: no job of the registry has two column mappings with the same
\* target name.
C21_NoDuplicateTargets ==
  \A j \in JobIds :
    exportJobs[j] # NoJob =>
      \A i, k \in DOMAIN exportJobs[j].columns :
        i # k => Target(exportJobs[j].columns[i]) # Target(exportJobs[j].columns[k])

\* The row of the encoding under observation with its missing column set
\* to null.
NullFilled(row) == [c \in {"a"} |-> IF c \in DOMAIN row THEN row[c] ELSE Null]

\* C22: in every writer, a row that lacks the mapped source column is
\* encoded exactly as the row that holds null in that column.
C22_MissingColumnIsNull ==
  (enc.pc \in {"csv", "json", "xml"} /\ "a" \notin DOMAIN enc.row) =>
    enc.out = (CASE enc.pc = "csv" -> csvLine(enc.cols, NullFilled(enc.row))
                 [] enc.pc = "json" -> jsonRecord(enc.cols, NullFilled(enc.row))
                 [] enc.pc = "xml" -> buildXmlRecord(enc.cols, NullFilled(enc.row)))

\* The characters for which the specification wraps a field in quotes:
\* the delimiter, the quote and the line breaks.
QuoteTriggers == {",", "\"", "\n", "\r"}

\* The CSV field the specification asks for.
QuotedField(v) ==
  IF v.kind = "null" THEN <<>>
  ELSE IF \E i \in DOMAIN v.text : v.text[i] \in QuoteTriggers
       THEN <<"\"">> \o ReplaceAll(v.text, "\"", <<"\"", "\"">>) \o <<"\"">>
       ELSE v.text

\* C24: the CSV field of a null is empty, of a text with a comma, a quote
\* or a line break is the text in quotes with its quotes doubled, and of any
\* other text is the text itself.
C24_CsvQuoting ==
  (enc.pc = "csv" /\ "a" \in DOMAIN enc.row) =>
    enc.out = QuotedField(enc.row["a"]) \o <<"\n">>

\* The values of a row in column-list order, each as its CSV field.
Fields(cols, row) == [i \in DOMAIN cols |-> csvField(row[Source(cols[i])])]

\* C23: a finished CSV export is the header line (the target names in
\* column-list order joined by commas) followed by one line per row in row
\* order, each the row's fields joined by commas and ended by a newline,
\* and nothing else.
C23_CsvDocument ==
  (enc.pc = "done" /\ enc.fmt = "csv") =>
    enc.text =
      Join([i \in DOMAIN enc.cols |-> <<Target(enc.cols[i])>>], <<",">>) \o <<"\n">>
        \o Concat([n \in DOMAIN enc.rows |->
                     Join(Fields(enc.cols, enc.rows[n]), <<",">>) \o <<"\n">>])

\* C23 witness: a finished CSV export of two columns and three rows, the
\* last row written by the 'end' handler.
C23_Witness ==
  /\ enc.pc = "done" /\ enc.fmt = "csv"
  /\ Len(enc.cols) = 2 /\ enc.cols[1] # enc.cols[2]
  /\ Len(enc.rows) = MaxRows /\ MaxRows % FlushRows # 0
  /\ enc.rows[1] # enc.rows[2]

\* C29: a finished JSON export is '[', the serialized records of the rows
\* in order with one comma between consecutive records (none before the
\* first, none after the last), and ']'; '[]' for no row.
C29_JsonDocument ==
  (enc.pc = "done" /\ enc.fmt = "json") =>
    /\ enc.text = <<"[">>
         \o Join([n \in DOMAIN enc.rows |-> jsonRecord(enc.cols, enc.rows[n])],
                 <<",">>)
         \o <<"]">>
    /\ enc.rows = <<>> => enc.text = <<"[", "]">>

\* C29 witness: a finished JSON export of three rows fetched in two
\* batches.
C29_Witness ==
  /\ enc.pc = "done" /\ enc.fmt = "json" /\ enc.writer = "cursor"
  /\ Len(enc.rows) = 3 /\ enc.batchSize = 2
  /\ Len(enc.text) > 2

\* C25: no export run is failed because the pool had no free client when
\* it asked for one.
C25_WaitsForConnection ==
  \A r \in AllRuns : Run(r).thrown # "TIMEOUT"

\* C26: an export run that returns without an error has gone through a
\* transaction on its connection (begin, declare, fetches, close, commit)
\* and has issued no rollback, whatever its format.
C26_CursorProtocol ==
  \A r \in RunIds :
    (Run(r).pc = "settle" /\ Run(r).thrown = "none")
      => (Run(r).txn = "committed" /\ Run(r).rb = "no")

\* C27: when the fetch loop of a cursor writer has ended, a table of N rows
\* read in batches of B rows has taken floor(N/B)+1 fetches.
C27_FetchCount ==
  \A r \in RunIds :
    Run(r).pc = "CLOSE"
      => Run(r).fetches = (Run(r).total \div BatchSize(Run(r).fmt)) + 1

\* C28: a JSON or XML run writes the closing token at most once, and only
\* with every batch written and the transaction committed; a run that has
\* raised an error has not written it.
C28_ClosingTokenOnlyOnSuccess ==
  \A r \in RunIds :
    /\ Run(r).closing <= 1
    /\ Run(r).closing = 1 =>
         /\ Run(r).fmt \in {"json", "xml"}
         /\ Run(r).err = "none" /\ Run(r).thrown = "none"
         /\ Run(r).pc # "done" => (Run(r).txn = "committed" /\ Run(r).left = 0)
    /\ Run(r).err # "none" => Run(r).closing = 0

\* C30: the schema of a parquet export is inferred from the first row the
\* ordered cursor yields, the row with the smallest key.
C30_SchemaFromFirstRow ==
  \A r \in RunIds :
    (Run(r).fmt = "parquet" /\ Run(r).pc \in {"openFile", "append"} /\ Run(r).total > 0)
      => Run(r).schema = 1

\* ------------------------------------------------------------- C31..C35
\* C31: a benchmark never answers with its failure alone while one of its
\* four runs has ended with a measurement: one format's failure does not
\* discard the other formats' results.
C31_IndependentFailureDomains ==
  ~(/\ bench = "rejected"
    /\ \E b \in BenchIds : Run(b).pc = "done" /\ Run(b).thrown = "none")

\* C35: once a run's transaction is committed no ROLLBACK is issued on it.
C35_TransactionEndedOnce ==
  \A r \in RunIds :
    Run(r).txn = "committed" => (Run(r).pc # "ROLLBACK" /\ Run(r).rb = "no")

\* C32: the rows a writer holds between fetching them and writing them to
\* its sink (lineBuffer of the CSV writer, the rest of the fetched batch and
\* the row-group buffer of the parquet writer) are never more than one
\* batch.
C32_AtMostOneBatchHeld ==
  \A r \in RunIds :
    Len(Run(r).lineBuf) + Len(Run(r).pend) + Len(Run(r).group)
      <= BatchSize(Run(r).fmt)

\* C33: no job of the registry has format parquet with compression gzip;
\* a download has the gzip stage and the Content-Encoding header exactly
\* when its job's compression is gzip, and a parquet download never has
\* them.
C33_GzipOnlyWhenAsked ==
  /\ \A j \in JobIds :
       exportJobs[j] # NoJob =>
         ~(exportJobs[j].format = "parquet" /\ exportJobs[j].compression = "gzip")
  /\ \A r \in RunIds :
       Run(r).job # 0 =>
         /\ ContentEncodingGzip(Run(r)) = (Job(r).compression = "gzip")
         /\ Run(r).fmt = "parquet" => ~Run(r).gz

\* C33 witness: a gzip download of a text format beside a parquet
\* download, after a parquet request with gzip was rejected.
C33_Witness ==
  /\ reply.body = "UnsupportedCompression"
  /\ \E r, q \in RunIds :
       /\ Run(r).gz /\ Run(r).fmt = "xml" /\ Run(r).held
       /\ Run(q).fmt = "parquet" /\ Run(q).held

\* The child element the specification asks for: self-closing when the
\* row's value is null or the row has no such column, otherwise the escaped
\* value between the tags named after the target.
Leaf(kind, row) ==
  LET name == <<Target(kind)>>
  IN  IF Source(kind) \notin DOMAIN row \/ row[Source(kind)].kind = "null"
      THEN <<"<">> \o name \o <<"/", ">">>
      ELSE <<"<">> \o name \o <<">">> \o escapeXml(row[Source(kind)].text)
             \o <<"<", "/">> \o name \o <<">">>

\* C34: a finished XML export is the prologue and the root's open tag,
\* then one record element per row in row order, each holding one child
\* element per mapped column in column-list order (self-closing when the
\* value is null or the column is absent from the row), then the root's
\* close tag.
C34_XmlDocument ==
  (enc.pc = "done" /\ enc.fmt = "xml") =>
    enc.text =
      XmlPrologue
        \o Concat([n \in DOMAIN enc.rows |->
                     <<"<", "r", "e", "c", "o", "r", "d", ">">>
                       \o Concat([i \in DOMAIN enc.cols |->
                                    Leaf(enc.cols[i], enc.rows[n])])
                       \o <<"<", "/", "r", "e", "c", "o", "r", "d", ">", "\n">>])
        \o XmlEpilogue

\* C34 witness: a finished XML export of two columns and three rows
\* fetched in two batches; the first row lacks column a and holds null in
\* column c, the second row holds a text in column a.
C34_Witness ==
  /\ enc.pc = "done" /\ enc.fmt = "xml"
  /\ Len(enc.cols) = 2 /\ enc.cols[1] # enc.cols[2]
  /\ Len(enc.rows) = 3 /\ enc.batchSize = 2
  /\ DOMAIN enc.rows[1] = {"c"} /\ enc.rows[1]["c"] = Null
  /\ "a" \in DOMAIN enc.rows[2] /\ enc.rows[2]["a"] = Str(<<"x">>)
====
